---- MODULE Spec2Model ----
(***************************************************************************)
(* Model of backend/app.py: the process-wide MovieRecommendationSystem     *)
(* (movies_df, vectorizer, tfidf_matrix, cosine_sim), the /api/initialize  *)
(* handler that rebuilds it in place, and the three query handlers.        *)
(*                                                                         *)
(* Conventions.                                                            *)
(*  - Strings that the code inspects character by character (titles,       *)
(*    queries, release dates) are sequences of one-character strings.      *)
(*  - Positions are 1-based here; catalog index i of the code is i+1.      *)
(*  - popularity and vote_average are kept in tenths (50 is 5.0), so       *)
(*    weighted_score is kept in hundredths: 3*popularity + 7*vote_average. *)
(*  - A cosine similarity is kept exactly, as the reduced fraction         *)
(*    <<p, q>> of its square (all term weights are non-negative, so the    *)
(*    order of the squares is the order of the cosines).                   *)
(*  - A row's `terms` are the term counts of its combined_features over    *)
(*    the fitted vocabulary (stop words and one-character tokens removed); *)
(*    the idf factor of TfidfVectorizer is taken as 1.                     *)
(*  - The dev server is threaded: /api/initialize runs as three steps (the *)
(*    three method calls of the handler) and a query handler, taken as one *)
(*    step, may run between them.                                          *)
(***************************************************************************)
EXTENDS Integers, Sequences, FiniteSets, TLC

\* ---------------------------------------------------------------- bounds
MaxRows == 3
SampleSize == 3
MaxSeeds == 2
MaxLimit == 2
MaxCount == 2
MaxSkip == 1

\* ------------------------------------------------------------- sentinels
\* Python's None for a string-valued attribute
None == "None"

\* a missing CSV cell (float nan) in a text column; str(nan) is 'nan'
NaN == <<"nan">>

\* the year sentinel, and the mark of a record that has no 'year' key
Unknown == <<"Unknown">>

NoKey == <<"<no key>">>

\* self.movies_df = None
NoFrame == [is_none |-> TRUE, rows |-> <<>>, columns |-> {}]

\* self.tfidf_matrix = None, self.cosine_sim = None: a matrix that was built
\* has at least one row (fit_transform raises on an empty corpus)
NoMatrix == <<>>

MIN_VOTE_COUNT == 10
MIN_OVERVIEW_LENGTH == 10
FILLED_OVERVIEW_LENGTH == 21

\* ------------------------------------------------------------ small maths
Min(a, b) == IF a <= b THEN a ELSE b

Max(a, b) == IF a >= b THEN a ELSE b

RECURSIVE Gcd(_, _)
Gcd(a, b) == IF b = 0 THEN a ELSE Gcd(b, a % b)

Range(s) == {s[k] : k \in 1..Len(s)}

\* s[:n] of Python for n >= 0
Head_n(s, n) == SubSeq(s, 1, Min(n, Len(s)))

Indices(n) == [i \in 1..n |-> i]

\* -------------------------------------------------------------- strings
Lower(c) == IF c = "A" THEN "a" ELSE IF c = "T" THEN "t" ELSE IF c = "B" THEN "b" ELSE c

str_lower(s) == [k \in 1..Len(s) |-> Lower(s[k])]

\* re.search(pat, s) for a pattern of literal characters and ".", which
\* matches any one character
re_search(pat, s) ==
    \E off \in 0..(Len(s) - Len(pat)) :
        \A k \in 1..Len(pat) : pat[k] = "." \/ pat[k] = s[off + k]

\* Series.str.contains(pat, na=False): regex=True is the default
str_contains(s, pat) == re_search(pat, s)

\* plain substring test (what `pat in s` is)
IsSubstring(pat, s) ==
    \E off \in 0..(Len(s) - Len(pat)) :
        \A k \in 1..Len(pat) : pat[k] = s[off + k]

\* ----------------------------------------------------------- dataset rows
\* overview is the length of the text, NoOverview when the cell is missing
NoOverview == 0 - 1

MkRow(t, terms, pop, vote, vc, ov, date, adult) ==
    [title |-> t, terms |-> terms, popularity |-> pop, vote_average |-> vote,
     vote_count |-> vc, overview |-> ov, release_date |-> date, adult |-> adult]

Date1999 == <<"1", "9", "9", "9", "-", "0", "3">>

DateTBA == <<"T", "B", "A">>

\* the rows a dataset file is made of, in file order
Pool ==
    << MkRow(<<"b">>, <<0, 0>>, 10, 50, 10, 11, <<>>, "False"),
       MkRow(<<"b", "a">>, <<1, 1>>, 50, 90, 11, 11, DateTBA, "False"),
       MkRow(<<"A">>, <<1, 0>>, 50, 90, 50, NoOverview, NaN, "False"),
       MkRow(<<"a">>, <<1, 0>>, 100, 50, 50, 11, Date1999, "False") >>

\* the rows of the pool at the positions S, in file order
FileOf(S) ==
    [k \in 1..Cardinality(S) |->
        Pool[CHOOSE i \in S : Cardinality({j \in S : j <= i}) = k]]

\* the dataset files of up to `most` rows
Files(most) == {FileOf(S) : S \in {T \in SUBSET (1..Len(Pool)) : Cardinality(T) <= most}}

\* what data/ holds: tmdb_5000_movies.csv, else movies_metadata.csv, else
\* nothing; "unreadable" is a tmdb_5000_movies.csv that read_csv or
\* clean_tmdb_data raises on (not a CSV, a required column missing)
Disks ==
    {[kind |-> "tmdb", rows |-> f] : f \in Files(MaxRows)}
    \cup {[kind |-> "metadata", rows |-> f] : f \in Files(MaxRows - 1)}
    \cup {[kind |-> "unreadable", rows |-> <<>>], [kind |-> "absent", rows |-> <<>>]}

Queries == {<<>>, <<"A">>, <<"b">>, <<".">>}

\* ------------------------------------------------------------- load_data
\* the positions of keys in stable descending order of key: equal keys stay
\* in their order (sort_values(ascending=False) on the few rows of the
\* model, nlargest(keep='first'))
StableDesc(keys) ==
    LET n == Len(keys)
        Before(i, j) == keys[i] > keys[j] \/ (keys[i] = keys[j] /\ i < j)
        Pos(i) == 1 + Cardinality({j \in 1..n : Before(j, i)})
    IN  [p \in 1..n |-> CHOOSE i \in 1..n : Pos(i) = p]

overview_len(r) == IF r.overview = NoOverview THEN FILLED_OVERVIEW_LENGTH ELSE r.overview

clean_tmdb_data(rows) ==
    LET filled == [p \in 1..Len(rows) |-> [rows[p] EXCEPT !.overview = overview_len(rows[p])]]
        KeepVotes(r) == r.vote_count >= MIN_VOTE_COUNT
        KeepOverview(r) == r.overview > MIN_OVERVIEW_LENGTH
        kept == SelectSeq(SelectSeq(filled, KeepVotes), KeepOverview)
        order == StableDesc([p \in 1..Len(kept) |-> kept[p].popularity])
    IN  [p \in 1..Len(kept) |-> kept[order[p]]]

\* lines 30-38: the extra filters of the movies_metadata.csv branch
metadata_filter(rows) ==
    LET NotAdult(r) == r.adult = "False"
        HasText(r) == r.overview # NoOverview
        Voted(r) == r.vote_count > MIN_VOTE_COUNT
    IN  SelectSeq(SelectSeq(SelectSeq(rows, NotAdult), HasText), Voted)

\* utils.filter_quality_movies with its default thresholds: rows without
\* an overview dropped, vote_count >= 10, overview of 10 characters or more,
\* adult rows dropped
filter_quality_movies(rows) ==
    LET HasText(r) == r.overview # NoOverview
        Voted(r) == r.vote_count >= MIN_VOTE_COUNT
        LongEnough(r) == r.overview >= MIN_OVERVIEW_LENGTH
        NotAdult(r) == r.adult = "False"
    IN  SelectSeq(SelectSeq(SelectSeq(SelectSeq(rows, HasText), Voted), LongEnough), NotAdult)

\* np.random, as the state `seed` of the generator
SampleTitle(i) == <<"b">> \o [k \in 1..i |-> "a"]

create_sample_dataset(seed) ==
    [i \in 1..SampleSize |->
        MkRow(SampleTitle(i),
              IF (i * seed) % 2 = 0 THEN <<1, 1>> ELSE <<1, 0>>,
              10 * (1 + ((i + seed) % 3)),
              40 + 10 * ((i * seed) % 4),
              50, 11, Date1999, "False")]

\* the rows load_data leaves in self.movies_df, and whether the dataset
\* could not be loaded (the except branch fell back to the sample)
load_data(d, seed) ==
    CASE d.kind = "tmdb" -> [rows |-> clean_tmdb_data(d.rows), failed |-> FALSE]
      [] d.kind = "metadata" -> [rows |-> clean_tmdb_data(metadata_filter(d.rows)), failed |-> FALSE]
      [] d.kind = "unreadable" -> [rows |-> create_sample_dataset(seed), failed |-> TRUE]
      [] OTHER -> [rows |-> create_sample_dataset(seed), failed |-> FALSE]

\* ------------------------------------------------- build_recommendation_models
Dot(u, v) == u[1] * v[1] + u[2] * v[2]

\* the square of the cosine of u and v as a reduced fraction; 0 when
\* either vector is the zero vector
Cosine(u, v) ==
    LET p == Dot(u, v) * Dot(u, v)
        q == Dot(u, u) * Dot(v, v)
    IN  IF q = 0 THEN <<0, 1>> ELSE <<p \div Gcd(p, q), q \div Gcd(p, q)>>

fit_transform(rows) == [i \in 1..Len(rows) |-> rows[i].terms]

\* TfidfVectorizer raises ValueError (empty vocabulary) when no document
\* holds a term
EmptyVocabulary(rows) == \A i \in 1..Len(rows) : rows[i].terms = <<0, 0>>

cosine_similarity(X) == [i \in 1..Len(X) |-> [j \in 1..Len(X) |-> Cosine(X[i], X[j])]]

\* ---------------------------------------------------------------- state
VARIABLES disk, movies_df, vectorizer, tfidf_matrix, cosine_sim, init, resp

vars == <<disk, movies_df, vectorizer, tfidf_matrix, cosine_sim, init, resp>>

snapshot == <<movies_df, vectorizer, tfidf_matrix, cosine_sim>>

\* the last reply sent: the handler, the HTTP status, whether the handler
\* called the recommender's query method, and the records it returned
NoResp == [kind |-> "none", status |-> 0, called |-> FALSE, movies |-> <<>>]

Idle == [pc |-> "idle", failed |-> FALSE, before |-> <<NoFrame, None, NoMatrix, NoMatrix>>]

Init ==
    /\ disk \in Disks
    /\ movies_df = NoFrame
    /\ vectorizer = None
    /\ tfidf_matrix = NoMatrix
    /\ cosine_sim = NoMatrix
    /\ init = Idle
    /\ resp = NoResp

\* --------------------------------------------------------- /api/initialize
\* line 261: success = recommender.load_data()
InitLoadData ==
    /\ init.pc = "idle"
    /\ \E seed \in 1..MaxSeeds :
        LET got == load_data(disk, seed)
        IN  /\ movies_df' = [is_none |-> FALSE, rows |-> got.rows, columns |-> {}]
            /\ init' = [pc |-> "loaded", failed |-> got.failed, before |-> snapshot]
    /\ UNCHANGED <<disk, vectorizer, tfidf_matrix, cosine_sim, resp>>

\* line 263: recommender.preprocess_data()
InitPreprocess ==
    /\ init.pc = "loaded"
    /\ movies_df' = [movies_df EXCEPT !.columns =
                        @ \cup {"clean_title", "clean_overview", "combined_features"}]
    /\ init' = [init EXCEPT !.pc = "preprocessed"]
    /\ UNCHANGED <<disk, vectorizer, tfidf_matrix, cosine_sim, resp>>

InitResp(status) == [NoResp EXCEPT !.kind = "initialize", !.status = status]

\* lines 264-269: recommender.build_recommendation_models() and the reply
InitBuildModels ==
    /\ init.pc = "preprocessed"
    /\ IF EmptyVocabulary(movies_df.rows)
       THEN /\ vectorizer' = "unfitted"
            /\ UNCHANGED <<tfidf_matrix, cosine_sim>>
            /\ resp' = InitResp(500)
       ELSE /\ vectorizer' = "fitted"
            /\ tfidf_matrix' = fit_transform(movies_df.rows)
            /\ cosine_sim' = cosine_similarity(fit_transform(movies_df.rows))
            /\ resp' = InitResp(200)
    /\ init' = Idle
    /\ UNCHANGED <<disk, movies_df>>

\* ---------------------------------------------------------------- queries
\* the record a query returns for catalog row i: title, release_date and
\* year of the projected fields, and i itself to name the row
Projected(rows, i, year) ==
    [idx |-> i, title |-> rows[i].title, release_date |-> rows[i].release_date, year |-> year]

\* lines 179-185 and 241-247: the year of a returned record
format_year(date) == IF date # <<>> /\ date # NaN THEN Head_n(date, 4) ELSE Unknown

\* the sort done ascending and then reversed: rows of equal score come out
\* in descending index order
sorted_sim_scores_reversed(row) ==
    LET n == Len(row)
        Greater(a, b) == a[1] * b[2] > b[1] * a[2]
        Before(i, j) == Greater(row[i], row[j]) \/ (row[i] = row[j] /\ i > j)
        Pos(i) == 1 + Cardinality({j \in 1..n : Before(j, i)})
    IN  [p \in 1..n |-> CHOOSE i \in 1..n : Pos(i) = p]

\* line 165: the positions of a similarity row sorted by score, highest
\* first; sorted(reverse=True) is stable
sorted_sim_scores(row) ==
    LET n == Len(row)
        Greater(a, b) == a[1] * b[2] > b[1] * a[2]
        Before(i, j) == Greater(row[i], row[j]) \/ (row[i] = row[j] /\ i < j)
        Pos(i) == 1 + Cardinality({j \in 1..n : Before(j, i)})
    IN  [p \in 1..n |-> CHOOSE i \in 1..n : Pos(i) = p]

\* the slice taken one short: sim_scores[1:num_recommendations]
movie_indices_short(row, num) == SubSeq(sorted_sim_scores(row), 2, Min(num, Len(row)))

\* line 168: sim_scores[1:num_recommendations+1]
movie_indices(row, num) == SubSeq(sorted_sim_scores(row), 2, Min(num + 1, Len(row)))

\* lines 154-156: the rows whose title matches movie_title
movie_matches(rows, movie_title) ==
    LET Hit(i) == str_contains(str_lower(rows[i].title), str_lower(movie_title))
    IN  SelectSeq(Indices(Len(rows)), Hit)

\* lines 150-193; [] stands for each of the except branches too: movies_df
\* or cosine_sim is None (TypeError), idx is no row of cosine_sim or a
\* ranked position is no row of movies_df (IndexError)
get_content_recommendations(df, sim, movie_title, num) ==
    IF df.is_none THEN <<>>
    ELSE LET hits == movie_matches(df.rows, movie_title)
         IN  IF hits = <<>> \/ sim = NoMatrix THEN <<>>
             ELSE IF hits[1] > Len(sim) THEN <<>>
             ELSE LET picked == movie_indices(sim[hits[1]], num)
                  IN  IF \E k \in 1..Len(picked) : picked[k] > Len(df.rows) THEN <<>>
                      ELSE [k \in 1..Len(picked) |->
                               Projected(df.rows, picked[k],
                                         format_year(df.rows[picked[k]].release_date))]

\* the two weights exchanged
weighted_score_swapped(r) == 7 * r.popularity + 3 * r.vote_average

\* lines 198-201
weighted_score(r) == 3 * r.popularity + 7 * r.vote_average

\* lines 203-212: nlargest(num_movies, 'weighted_score'); no 'year' is set
get_popular_movies(df, num_movies) ==
    LET order == StableDesc([i \in 1..Len(df.rows) |-> weighted_score(df.rows[i])])
        top == Head_n(order, num_movies)
    IN  [k \in 1..Len(top) |-> Projected(df.rows, top[k], NoKey)]

\* lines 214-252
search_movies(df, query, limit) ==
    IF df.is_none THEN <<>>
    ELSE LET rows == df.rows
             Exact(i) == str_lower(rows[i].title) = str_lower(query)
             Partial(i) == str_contains(str_lower(rows[i].title), str_lower(query)) /\ ~Exact(i)
             exact_matches == Head_n(SelectSeq(Indices(Len(rows)), Exact), limit \div 2)
             partial_matches == Head_n(SelectSeq(Indices(Len(rows)), Partial),
                                       limit - Len(exact_matches))
             results == Head_n(exact_matches \o partial_matches, limit)
         IN  [k \in 1..Len(results) |->
                Projected(rows, results[k], format_year(rows[results[k]].release_date))]

Reply(kind, status, called, movies) ==
    [kind |-> kind, status |-> status, called |-> called, movies |-> movies]

\* get_popular_movies sorting the shared table in place by the new column
PopularEndpoint_sorting(limit) ==
    /\ IF movies_df.is_none
       THEN /\ resp' = Reply("popular", 500, TRUE, <<>>)
            /\ UNCHANGED movies_df
       ELSE LET order == StableDesc([i \in 1..Len(movies_df.rows) |->
                                        weighted_score(movies_df.rows[i])])
            IN  /\ resp' = Reply("popular", 200, TRUE, get_popular_movies(movies_df, limit))
                /\ movies_df' = [movies_df EXCEPT
                                    !.columns = @ \cup {"weighted_score"},
                                    !.rows = [p \in 1..Len(order) |-> movies_df.rows[order[p]]]]
    /\ UNCHANGED <<disk, vectorizer, tfidf_matrix, cosine_sim, init>>

\* lines 271-279: GET /api/movies/popular
PopularEndpoint(limit) ==
    /\ IF movies_df.is_none
       THEN /\ resp' = Reply("popular", 500, TRUE, <<>>)
            /\ UNCHANGED movies_df
       ELSE /\ resp' = Reply("popular", 200, TRUE, get_popular_movies(movies_df, limit))
            /\ movies_df' = [movies_df EXCEPT !.columns = @ \cup {"weighted_score"}]
    /\ UNCHANGED <<disk, vectorizer, tfidf_matrix, cosine_sim, init>>

\* the handler without its `if not query` check
SearchEndpoint_unchecked(query, limit) ==
    /\ resp' = Reply("search", 200, TRUE, search_movies(movies_df, query, limit))
    /\ UNCHANGED <<disk, movies_df, vectorizer, tfidf_matrix, cosine_sim, init>>

\* lines 281-294: GET /api/movies/search
SearchEndpoint(query, limit) ==
    /\ IF query = <<>>
       THEN resp' = Reply("search", 400, FALSE, <<>>)
       ELSE resp' = Reply("search", 200, TRUE, search_movies(movies_df, query, limit))
    /\ UNCHANGED <<disk, movies_df, vectorizer, tfidf_matrix, cosine_sim, init>>

\* lines 296-314: POST /api/recommendations; the handler reads movie_title
\* and num_recommendations of the body and no other key, so a `skip` sent
\* with the request has no effect
RecommendationsEndpoint(movie_title, num, skip) ==
    /\ IF movie_title = <<>>
       THEN resp' = Reply("recommendations", 400, FALSE, <<>>)
       ELSE LET recs == get_content_recommendations(movies_df, cosine_sim, movie_title, num)
            IN  resp' = Reply("recommendations", IF recs = <<>> THEN 404 ELSE 200, TRUE, recs)
    /\ UNCHANGED <<disk, movies_df, vectorizer, tfidf_matrix, cosine_sim, init>>

Popular == \E limit \in 0..MaxLimit : PopularEndpoint(limit)

Search == \E query \in Queries, limit \in 0..MaxLimit : SearchEndpoint(query, limit)

Recommendations ==
    \E movie_title \in Queries, num \in 0..MaxCount, skip \in 0..MaxSkip :
        RecommendationsEndpoint(movie_title, num, skip)

Query == Popular \/ Search \/ Recommendations

Next == InitLoadData \/ InitPreprocess \/ InitBuildModels \/ Popular \/ Search \/ Recommendations

Spec == Init /\ [][Next]_vars

\* utils.extract_year_from_date: the year of a date that parses, else
\* 'Unknown'
CurrentYear == 2026

Digits == <<"0", "1", "2", "3", "4", "5", "6", "7", "8", "9">>

isdigit(s) == s # <<>> /\ \A k \in 1..Len(s) : s[k] \in Range(Digits)

DigitValue(c) == (CHOOSE d \in 1..10 : Digits[d] = c) - 1

int4(s) == 1000 * DigitValue(s[1]) + 100 * DigitValue(s[2]) + 10 * DigitValue(s[3]) + DigitValue(s[4])

extract_year_from_date(date) ==
    IF date = NaN \/ date = <<>> THEN Unknown
    ELSE IF Len(date) >= 4 /\ isdigit(Head_n(date, 4))
              /\ 1900 <= int4(date) /\ int4(date) <= CurrentYear + 5
         THEN Head_n(date, 4)
         ELSE Unknown

\* what the service answers to topSimilar(i, skip, count): row i of the
\* matrix ranked by get_content_recommendations(title, count), which has no
\* skip parameter, and a handler that passes none on (lines 150, 300-307)
topSimilar(sim, i, skip, count) == movie_indices(sim[i], count)

\* ------------------------------------------------------------------ claims
Score(r) == 3 * r.popularity + 7 * r.vote_average

ReturnedIdx(movies) == {movies[k].idx : k \in 1..Len(movies)}

\* no /api/initialize is in flight and the matrix is the one built from the
\* catalog
Settled ==
    /\ init.pc = "idle"
    /\ ~movies_df.is_none
    /\ cosine_sim # NoMatrix
    /\ cosine_sim = cosine_similarity(fit_transform(movies_df.rows))

\* a step of one of the three query handlers: every step of /api/initialize
\* moves init.pc
QueryStep == UNCHANGED init /\ resp'.kind \in {"popular", "search", "recommendations"}

TitleQueries == Queries \ {<<>>}

IdxOf(movies) == [k \in 1..Len(movies) |-> movies[k].idx]

IsGreater(a, b) == a[1] * b[2] > b[1] * a[2]

\* the catalog positions whose title contains q, case-insensitively
Containing(rows, q) ==
    LET Hit(i) == IsSubstring(str_lower(q), str_lower(rows[i].title))
    IN  SelectSeq(Indices(Len(rows)), Hit)

\* C1: the similar-movies result for the movie at index i never contains
\* index i itself, whatever the scores of row i are.
C1_NeverSelf ==
    [][\A t \in TitleQueries, num \in 0..MaxCount, skip \in 0..MaxSkip :
          (RecommendationsEndpoint(t, num, skip) /\ Settled
              /\ movie_matches(movies_df.rows, t) # <<>>) =>
              movie_matches(movies_df.rows, t)[1] \notin ReturnedIdx(resp'.movies)]_vars

\* C2: a similar-movies query that runs while /api/initialize is in flight
\* reads a catalog and a similarity matrix of one build: the matrix it ranks
\* with is the one built from the catalog it reads.
C2_OneSnapshot ==
    [][\A t \in TitleQueries, num \in 0..MaxCount, skip \in 0..MaxSkip :
          (RecommendationsEndpoint(t, num, skip) /\ resp'.status = 200) =>
              cosine_sim = cosine_similarity(fit_transform(movies_df.rows))]_vars

\* C3: a build that fails at the corpus level (the dataset cannot be loaded,
\* or model construction raises) leaves the previously active snapshot as
\* it was when the build began.
C3_FailedBuildKeepsSnapshot ==
    [][(InitBuildModels /\ init.before[4] # NoMatrix
          /\ (init.failed \/ resp'.status = 500)) =>
              snapshot' = init.before]_vars

SearchContract(rows, q, limit) ==
    LET Exact(i) == str_lower(rows[i].title) = str_lower(q)
        Partial(i) == IsSubstring(str_lower(q), str_lower(rows[i].title)) /\ ~Exact(i)
        exact == Head_n(SelectSeq(Indices(Len(rows)), Exact), limit \div 2)
        partial == Head_n(SelectSeq(Indices(Len(rows)), Partial), limit - Len(exact))
    IN  Head_n(exact \o partial, limit)

\* C5: search(query, limit) returns the first limit // 2 records whose title
\* equals the query case-insensitively, then the first limit - |exact|
\* records whose title contains the query without being equal to it, in
\* catalog order, cut to limit.
C5_SearchResult ==
    [][\A q \in TitleQueries, limit \in 0..MaxLimit :
          (SearchEndpoint(q, limit) /\ Settled) =>
              IdxOf(resp'.movies) = SearchContract(movies_df.rows, q, limit)]_vars

\* C7: similarTo resolves the title query to the first catalog index whose
\* title contains it case-insensitively and ranks the neighbours of that
\* index; when no title contains it the call is answered 404 with no
\* record and the state is unchanged.
C7_Resolve ==
    [][\A t \in TitleQueries, num \in 0..MaxCount, skip \in 0..MaxSkip :
          (RecommendationsEndpoint(t, num, skip) /\ Settled) =>
              IF Containing(movies_df.rows, t) = <<>>
              THEN resp'.status = 404 /\ resp'.movies = <<>> /\ UNCHANGED snapshot
              ELSE IdxOf(resp'.movies) =
                      movie_indices(cosine_sim[Containing(movies_df.rows, t)[1]], num)]_vars

C10_YearField ==
    [][(QueryStep /\ Settled) =>
          \A k \in 1..Len(resp'.movies) :
              resp'.movies[k].year = extract_year_from_date(resp'.movies[k].release_date)]_vars

\* what popular(count) must return over the catalog `rows`
PopularContract(movies, rows, count) ==
    /\ Len(movies) = Min(count, Len(rows))
    /\ \A k \in 1..Len(movies) :
          /\ movies[k].idx \in 1..Len(rows)
          /\ movies[k].title = rows[movies[k].idx].title
    /\ \A k, l \in 1..Len(movies) :
          k < l => \/ Score(rows[movies[k].idx]) > Score(rows[movies[l].idx])
                   \/ /\ Score(rows[movies[k].idx]) = Score(rows[movies[l].idx])
                      /\ movies[k].idx < movies[l].idx
    /\ \A i \in (1..Len(rows)) \ ReturnedIdx(movies) :
          \A k \in 1..Len(movies) : Score(rows[i]) <= Score(rows[movies[k].idx])

\* C6: popular(count) over a loaded catalog of N records answers 200 with
\* min(count, N) records in descending order of 0.3*popularity +
\* 0.7*vote_average, no omitted record scoring higher than a returned one,
\* and records of equal score in catalog order, so the sequence is the same
\* on every call against the same catalog.
C6_PopularRanking ==
    [][\A limit \in 0..MaxLimit :
          (PopularEndpoint(limit) /\ ~movies_df.is_none) =>
              /\ resp'.status = 200
              /\ PopularContract(resp'.movies, movies_df.rows, limit)]_vars

\* popular has returned two records of equal score, ranked above the most
\* popular record of the catalog, which it left out
C6_Witness ==
    /\ resp.kind = "popular" /\ resp.status = 200
    /\ ~movies_df.is_none /\ Len(movies_df.rows) >= 3
    /\ "weighted_score" \in movies_df.columns
    /\ Len(resp.movies) = 2
    /\ 1 \notin ReturnedIdx(resp.movies)
    /\ Score(movies_df.rows[resp.movies[1].idx]) = Score(movies_df.rows[resp.movies[2].idx])

\* C9: a search request whose query is empty or missing is answered 400
\* without search_movies being called, and it changes neither the catalog
\* nor the vectorizer nor the matrices.
C9_EmptyQueryRejected ==
    [][\A limit \in 0..MaxLimit :
          SearchEndpoint(<<>>, limit) =>
              /\ resp'.status = 400
              /\ resp'.called = FALSE
              /\ resp'.movies = <<>>
              /\ UNCHANGED <<movies_df, vectorizer, tfidf_matrix, cosine_sim>>]_vars

\* an empty search was rejected while a built catalog was being served
C9_Witness ==
    /\ resp.kind = "search" /\ resp.status = 400 /\ resp.called = FALSE
    /\ ~movies_df.is_none /\ Len(movies_df.rows) >= 1
    /\ cosine_sim # NoMatrix


\* C11: when the corpus fails to load, or is empty or unusable at build
\* time, /api/initialize reports the error to its caller: it never answers
\* success after a load failure.
C11_DataErrorReported ==
    [][(InitBuildModels /\ (init.failed \/ EmptyVocabulary(movies_df.rows))) =>
          (resp'.kind = "initialize" /\ resp'.status = 500)]_vars

\* the answers of every query against the snapshot snap
AllAnswers(snap) ==
    [similar |-> [t \in TitleQueries |-> [num \in 0..MaxCount |->
                    get_content_recommendations(snap[1], snap[4], t, num)]],
     popular |-> [limit \in 0..MaxLimit |-> get_popular_movies(snap[1], limit)],
     search  |-> [q \in TitleQueries |-> [limit \in 0..MaxLimit |->
                    search_movies(snap[1], q, limit)]]]

\* C12: a second successful build over the same dataset files (present or
\* absent, same contents) leaves a state in which every similarTo, popular
\* and search query returns what it returned after the first build.
C12_BuildIdempotent ==
    [][(/\ InitBuildModels
        /\ resp'.status = 200
        /\ init.before[4] # NoMatrix
        /\ init.before[4] = cosine_similarity(fit_transform(init.before[1].rows))) =>
          AllAnswers(snapshot') = AllAnswers(init.before)]_vars


\* C13: the records similarTo returns for the movie at index i are in
\* descending order of their score in row i, and any two of equal score are
\* in ascending catalog-index order.
C13_RankingOrder ==
    [][\A t \in TitleQueries, num \in 0..MaxCount, skip \in 0..MaxSkip :
          (/\ resp'.kind = "recommendations" /\ resp'.status = 200
           /\ Settled
           /\ RecommendationsEndpoint(t, num, skip)) =>
              LET row == cosine_sim[movie_matches(movies_df.rows, t)[1]]
                  got == IdxOf(resp'.movies)
              IN  \A k, l \in 1..Len(got) :
                      k < l => \/ IsGreater(row[got[k]], row[got[l]])
                               \/ (row[got[k]] = row[got[l]] /\ got[k] < got[l])]_vars

\* similarTo has returned two records of equal score, neither of them the
\* queried movie
C13_Witness ==
    /\ resp.kind = "recommendations" /\ resp.status = 200
    /\ Settled
    /\ Len(resp.movies) = 2
    /\ \E i \in 1..Len(cosine_sim) :
          /\ i \notin ReturnedIdx(resp.movies)
          /\ cosine_sim[i][resp.movies[1].idx] = cosine_sim[i][resp.movies[2].idx]
          /\ IdxOf(resp.movies) = movie_indices(cosine_sim[i], 2)


TitlesOf(rows) == {rows[k].title : k \in 1..Len(rows)}

\* C14: after a successful build every record of the catalog has
\* vote_count >= 10 and an overview longer than 10 characters, and the rows
\* of the dataset file the core kept are the rows filter_quality_movies
\* keeps.
C14_QualityFilter ==
    [][(InitBuildModels /\ resp'.status = 200) =>
          /\ \A k \in 1..Len(movies_df'.rows) :
                /\ movies_df'.rows[k].vote_count >= 10
                /\ movies_df'.rows[k].overview > 10
          /\ disk.kind \in {"tmdb", "metadata"} =>
                TitlesOf(movies_df'.rows) = TitlesOf(filter_quality_movies(disk.rows))]_vars

\* the first half of C14 alone
C14_Thresholds ==
    [][(InitBuildModels /\ resp'.status = 200) =>
          \A k \in 1..Len(movies_df'.rows) :
                /\ movies_df'.rows[k].vote_count >= 10
                /\ movies_df'.rows[k].overview > 10]_vars


C15_ExactFirstFromTwo ==
    [][\A q \in TitleQueries, limit \in 2..MaxLimit :
          (/\ resp'.kind = "search"
           /\ Settled
           /\ \E i \in 1..Len(movies_df.rows) :
                  str_lower(movies_df.rows[i].title) = str_lower(q)
           /\ SearchEndpoint(q, limit)) =>
              /\ resp'.movies # <<>>
              /\ str_lower(resp'.movies[1].title) = str_lower(q)]_vars

\* C16: while no build has completed (movies_df and cosine_sim unset) every
\* query endpoint answers with an error status, never with success.
C16_NoSuccessBeforeBuild ==
    [][(QueryStep /\ movies_df.is_none /\ cosine_sim = NoMatrix) =>
          resp'.status >= 400]_vars

====
